---- MODULE Spec2Model ----
(***************************************************************************)
(* Model of meal_planner.py: the persisted document (ingredients          *)
(* "zutaten", recipes "rezepte", weekly plan "wochenplan"), the session's *)
(* in-memory copy of it, and the handlers that change it.  One action is  *)
(* one user interaction: the script run in which the widget fires, and    *)
(* the run st.rerun() starts after it.                                     *)
(***************************************************************************)
EXTENDS Integers, Sequences, FiniteSets, TLC

VARIABLES session, data, file, saved, selected_day, temp_zutaten, uploaded_backup, meldung,
          anzeige

vars ==
    <<session, data, file, saved, selected_day, temp_zutaten, uploaded_backup, meldung,
      anzeige>>

----------------------------------------------------------------------------
(* Bounds of the model *)

\* AddMeal is offered by the model only while the selected day holds fewer
\* meals than this (the list itself is unbounded in the program).
MaxMeals == 2

----------------------------------------------------------------------------
(* Strings, and Python's comparison of them *)

\* The time strings "HH:MM" that occur in the model, as code points.
CodePoints(s) ==
    CASE s = "08:00" -> <<48, 56, 58, 48, 48>>
      [] s = "12:00" -> <<49, 50, 58, 48, 48>>
      [] s = "15:00" -> <<49, 53, 58, 48, 48>>
      [] s = "18:00" -> <<49, 56, 58, 48, 48>>

RECURSIVE LexLess(_, _)
LexLess(a, b) ==
    IF b = <<>> THEN FALSE
    ELSE IF a = <<>> THEN TRUE
    ELSE IF Head(a) # Head(b) THEN Head(a) < Head(b)
    ELSE LexLess(Tail(a), Tail(b))

\* Python's s < t on str
StrLess(s, t) == LexLess(CodePoints(s), CodePoints(t))

\* datetime.time.strftime("%H:%M") of the time_input value <<hour, minute>>
Pad2(n) == <<48 + (n \div 10), 48 + (n % 10)>>

strftime(t) ==
    LET cp == Pad2(t[1]) \o <<58>> \o Pad2(t[2])
    IN  CHOOSE s \in {"08:00", "12:00", "15:00", "18:00"} : CodePoints(s) = cp

----------------------------------------------------------------------------
(* dict helpers: a dict is a function on a finite set of keys *)

EmptyDict == [k \in {} |-> 0]

\* a merge that keeps the entry the dict already has
DictUpdateKeepsOld(d1, d2) ==
    [k \in DOMAIN d1 \cup DOMAIN d2 |-> IF k \in DOMAIN d1 THEN d1[k] ELSE d2[k]]

\* d1.update(d2)
DictUpdate(d1, d2) ==
    [k \in DOMAIN d1 \cup DOMAIN d2 |-> IF k \in DOMAIN d2 THEN d2[k] ELSE d1[k]]

\* d[k] = v
DictSet(d, k, v) == [x \in DOMAIN d \cup {k} |-> IF x = k THEN v ELSE d[x]]

\* del d[k]
DictDel(d, k) == [x \in DOMAIN d \ {k} |-> d[x]]

----------------------------------------------------------------------------
(* The weekly plan *)

\* The seven day keys, in the order load_data writes them
Tage == <<"Montag", "Dienstag", "Mittwoch", "Donnerstag", "Freitag", "Samstag", "Sonntag">>

TageSet == {Tage[i] : i \in DOMAIN Tage}

\* An entry of a day list is a record.  A meal has "zeit" and "rezept"; an
\* entry without "zeit" is a meal dict that lacks the key; an entry with
\* "slot" is an item of a day value that is a mapping (slot name -> recipe
\* name), whose iteration yields the slot name, a str.
HasZeit(m) == "zeit" \in DOMAIN m

IsMapping(day) == day # <<>> /\ "slot" \in DOMAIN day[1]

Meal(z, r) == [zeit |-> z, rezept |-> r]

\* m.get("rezept") on a meal dict
GetRezept(m) == IF "rezept" \in DOMAIN m THEN m.rezept ELSE ""

\* list.sort(key=lambda x: x["zeit"]) raises (and leaves the list as it was)
\* when some entry has no "zeit"
SortRaises(list) == \E i \in DOMAIN list : ~HasZeit(list[i])

\* insertion of m behind every entry whose key is not greater: stable
RECURSIVE InsertByZeit(_, _)
InsertByZeit(sorted, m) ==
    IF sorted = <<>> THEN <<m>>
    ELSE IF StrLess(m.zeit, Head(sorted).zeit) THEN <<m>> \o sorted
    ELSE <<Head(sorted)>> \o InsertByZeit(Tail(sorted), m)

RECURSIVE SortFrom(_, _, _)
SortFrom(list, i, acc) ==
    IF i > Len(list) THEN acc ELSE SortFrom(list, i + 1, InsertByZeit(acc, list[i]))

\* list.sort(key=lambda x: x["zeit"]): stable, ascending by the time string
SortByZeit(list) == IF SortRaises(list) THEN list ELSE SortFrom(list, 1, <<>>)

IsSorted(list) ==
    \A i \in 1..(Len(list) - 1) :
        HasZeit(list[i]) /\ HasZeit(list[i + 1]) /\ ~StrLess(list[i + 1].zeit, list[i].zeit)

----------------------------------------------------------------------------
(* The document and its storage *)

RequiredKeys == <<"zutaten", "rezepte", "wochenplan">>

Doc(z, r, w) == [zutaten |-> z, rezepte |-> r, wochenplan |-> w]

\* what load_data returns when there is no file
DefaultDoc == Doc(EmptyDict, EmptyDict, [t \in TageSet |-> <<>>])

\* os.path.exists(DATA_FILE) is false
NoFile == [missing |-> TRUE]

\* the day keys of a plan in dict order, and the first of its values
DayKeys(plan) == SelectSeq(Tage, LAMBDA t : t \in DOMAIN plan)

time_mapping(slot) ==
    CASE slot = "Fruehstueck" -> "08:00"
      [] slot = "Mittagessen" -> "12:00"
      [] slot = "Abendessen"  -> "18:00"
      [] slot = "Snacks"      -> "15:00"
      [] OTHER                -> "12:00"

\* one day of the old format: an entry for every slot whose recipe is
\* non-empty, in the mapping's order, then sorted by time
RECURSIVE MigrateItems(_, _)
MigrateItems(items, i) ==
    IF i > Len(items) THEN <<>>
    ELSE (IF items[i].rezept # ""
          THEN <<Meal(time_mapping(items[i].slot), items[i].rezept)>>
          ELSE <<>>) \o MigrateItems(items, i + 1)

\* a migration that leaves the entries in the mapping's order
MigrateDayUnsorted(items) == MigrateItems(items, 1)

MigrateDay(items) == SortByZeit(MigrateItems(items, 1))

\* the test of lines 27-30: the plan is non-empty and its first value is a dict
IsLegacy(doc) ==
    /\ "wochenplan" \in DOMAIN doc
    /\ DOMAIN doc.wochenplan # {}
    /\ IsMapping(doc.wochenplan[DayKeys(doc.wochenplan)[1]])

Migrate(doc) ==
    [doc EXCEPT !.wochenplan = [t \in DOMAIN doc.wochenplan |-> MigrateDay(doc.wochenplan[t])]]

\* a load that also sorts the days of a document in the current format
load_data_sorts_current(f) ==
    IF f = NoFile THEN DefaultDoc
    ELSE IF IsLegacy(f) THEN Migrate(f)
    ELSE [f EXCEPT !.wochenplan = [t \in DOMAIN f.wochenplan |-> SortByZeit(f.wochenplan[t])]]

\* load_data: the document it returns ...
load_data(f) ==
    IF f = NoFile THEN DefaultDoc
    ELSE IF IsLegacy(f) THEN Migrate(f)
    ELSE f

\* a load without the save_data of line 51
load_data_file_no_save(f) == f

\* ... and the file it leaves (save_data of the migrated document)
load_data_file(f) ==
    IF f # NoFile /\ IsLegacy(f) THEN Migrate(f) ELSE f

\* save_data: the whole document replaces the file's contents
save_data(doc) == doc

----------------------------------------------------------------------------
(* A script run: what is rendered before and after the handlers *)

\* tab1 (lines 133-136, 179-183) reads every entry of every day; an entry
\* that is a str has no .get, an entry without "zeit" fails the sorted() key
Tab1Raises(doc) ==
    \E t \in DOMAIN doc.wochenplan :
        \E i \in DOMAIN doc.wochenplan[t] : ~HasZeit(doc.wochenplan[t][i])

\* tab4 is rendered only when there are recipes (line 607)
Tab4Shown(doc) == DOMAIN doc.rezepte # {}

\* line 622: the selected day is looked up in the plan
Tab4Raises(doc, sel) == Tab4Shown(doc) /\ sel \notin DOMAIN doc.wochenplan

\* lines 622-625: the selected day's list is sorted in place, in memory
RenderTab4(doc, sel) ==
    IF Tab4Shown(doc) /\ sel \in DOMAIN doc.wochenplan
    THEN [doc EXCEPT !.wochenplan[sel] = SortByZeit(@)]
    ELSE doc

\* a script run in which no handler fires: the document it leaves in memory
Render(doc, sel) == IF Tab1Raises(doc) THEN doc ELSE RenderTab4(doc, sel)

\* the run gets as far as tab2 and tab3 / the body of tab4 / tab6
ReachesTab2(doc) == ~Tab1Raises(doc)

ReachesTab3Form(doc) == ~Tab1Raises(doc) /\ DOMAIN doc.zutaten # {}

ReachesTab4Body(doc, sel) ==
    ~Tab1Raises(doc) /\ Tab4Shown(doc) /\ sel \in DOMAIN doc.wochenplan

ReachesTab6(doc, sel) == ~Tab1Raises(doc) /\ ~Tab4Raises(doc, sel)

----------------------------------------------------------------------------
(* Derived values: recipe nutrition, weekly totals, shopping list.  Amounts *)
(* of nutrients are carried in hundredths (value per 100 g times grams), so *)
(* that the division by 100 of line 82 loses nothing.                       *)

NutritionKeys == {"protein", "kohlenhydrate", "fett", "kalorien"}

\* the keys of a dict in the order .items() yields them
RECURSIVE DictKeys(_)
DictKeys(keys) ==
    IF keys = {} THEN <<>>
    ELSE LET k == CHOOSE x \in keys : TRUE IN <<k>> \o DictKeys(keys \ {k})

\* a loop that assigns the ingredient's amount instead of adding it
RECURSIVE NutritionLoopAssigns(_, _, _, _)
NutritionLoopAssigns(items, rezept, zutaten, total) ==
    IF items = <<>> THEN total
    ELSE LET zutat_name == Head(items)
             menge == rezept.zutaten[zutat_name]
         IN  NutritionLoopAssigns(Tail(items), rezept, zutaten,
                 IF zutat_name \in DOMAIN zutaten
                 THEN [k \in NutritionKeys |-> zutaten[zutat_name][k] * menge]
                 ELSE total)

\* lines 79-86
RECURSIVE NutritionLoop(_, _, _, _)
NutritionLoop(items, rezept, zutaten, total) ==
    IF items = <<>> THEN total
    ELSE LET zutat_name == Head(items)
             menge == rezept.zutaten[zutat_name]
         IN  NutritionLoop(Tail(items), rezept, zutaten,
                 IF zutat_name \in DOMAIN zutaten
                 THEN [k \in NutritionKeys |-> total[k] + zutaten[zutat_name][k] * menge]
                 ELSE total)

\* lines 75-88
calculate_recipe_nutrition(rezept, zutaten) ==
    NutritionLoop(DictKeys(DOMAIN rezept.zutaten), rezept, zutaten,
                  [k \in NutritionKeys |-> 0])

\* the meals of all days, in the order the loops of lines 133-134 visit them
RECURSIVE AllMeals(_, _, _)
AllMeals(plan, keys, i) ==
    IF i > Len(keys) THEN <<>> ELSE plan[keys[i]] \o AllMeals(plan, keys, i + 1)

\* line 136 / line 98: rezept_name and rezept_name in data["rezepte"]
Resolves(doc, mahlzeit) ==
    GetRezept(mahlzeit) # "" /\ GetRezept(mahlzeit) \in DOMAIN doc.rezepte

\* a total that counts every recipe of the plan once
RECURSIVE WeeklyLoopDistinct(_, _, _, _)
WeeklyLoopDistinct(doc, meals, i, acc) ==
    IF i > Len(meals) THEN acc
    ELSE WeeklyLoopDistinct(doc, meals, i + 1,
             IF Resolves(doc, meals[i])
                /\ ~\E j \in 1..(i - 1) : GetRezept(meals[j]) = GetRezept(meals[i])
             THEN [meal_count |-> acc.meal_count + 1,
                   weekly_totals |->
                       [k \in NutritionKeys |->
                           acc.weekly_totals[k]
                             + calculate_recipe_nutrition(doc.rezepte[meals[i].rezept],
                                                          doc.zutaten)[k]]]
             ELSE acc)

\* lines 133-144
RECURSIVE WeeklyLoop(_, _, _, _)
WeeklyLoop(doc, meals, i, acc) ==
    IF i > Len(meals) THEN acc
    ELSE WeeklyLoop(doc, meals, i + 1,
             IF Resolves(doc, meals[i])
             THEN [meal_count |-> acc.meal_count + 1,
                   weekly_totals |->
                       [k \in NutritionKeys |->
                           acc.weekly_totals[k]
                             + calculate_recipe_nutrition(doc.rezepte[meals[i].rezept],
                                                          doc.zutaten)[k]]]
             ELSE acc)

\* lines 129-144: meal_count and weekly_totals of the dashboard
weekly(doc) ==
    WeeklyLoop(doc, AllMeals(doc.wochenplan, DayKeys(doc.wochenplan), 1), 1,
               [meal_count |-> 0, weekly_totals |-> [k \in NutritionKeys |-> 0]])

\* lines 100-101: einkaufsliste[zutat] += menge for every ingredient of the recipe
RECURSIVE AddMengen(_, _, _)
AddMengen(einkaufsliste, rezept, items) ==
    IF items = <<>> THEN einkaufsliste
    ELSE LET zutat == Head(items)
             bisher == IF zutat \in DOMAIN einkaufsliste THEN einkaufsliste[zutat] ELSE 0
         IN  AddMengen(DictSet(einkaufsliste, zutat, bisher + rezept.zutaten[zutat]),
                       rezept, Tail(items))

\* a list that divides the recipe's quantities by its servings
RECURSIVE ShoppingLoopPerServing(_, _, _, _)
ShoppingLoopPerServing(doc, meals, i, einkaufsliste) ==
    IF i > Len(meals) THEN einkaufsliste
    ELSE ShoppingLoopPerServing(doc, meals, i + 1,
             IF Resolves(doc, meals[i])
             THEN LET rezept == doc.rezepte[meals[i].rezept]
                      scaled == [rezept EXCEPT !.zutaten =
                                    [z \in DOMAIN rezept.zutaten |->
                                        rezept.zutaten[z] \div rezept.portionen]]
                  IN  AddMengen(einkaufsliste, scaled, DictKeys(DOMAIN scaled.zutaten))
             ELSE einkaufsliste)

\* lines 94-101
RECURSIVE ShoppingLoop(_, _, _, _)
ShoppingLoop(doc, meals, i, einkaufsliste) ==
    IF i > Len(meals) THEN einkaufsliste
    ELSE ShoppingLoop(doc, meals, i + 1,
             IF Resolves(doc, meals[i])
             THEN LET rezept == doc.rezepte[meals[i].rezept]
                  IN  AddMengen(einkaufsliste, rezept, DictKeys(DOMAIN rezept.zutaten))
             ELSE einkaufsliste)

\* lines 90-103
generate_shopping_list(doc) ==
    ShoppingLoop(doc, AllMeals(doc.wochenplan, DayKeys(doc.wochenplan), 1), 1, EmptyDict)

\* a grouping that leaves out the names the ingredient map lacks
kategorie_known_only(doc, einkaufsliste) ==
    [zutat_name \in DOMAIN einkaufsliste \cap DOMAIN doc.zutaten |->
        doc.zutaten[zutat_name].kategorie]

\* lines 763-768: the category each entry of the list is shown under
kategorie(doc, einkaufsliste) ==
    [zutat_name \in DOMAIN einkaufsliste |->
        IF zutat_name \in DOMAIN doc.zutaten
        THEN doc.zutaten[zutat_name].kategorie
        ELSE "Unbekannt"]

\* an entry of a day that is a str (the key of a day that is a mapping):
\* mahlzeit.get of line 135 raises
HasStrEntries(doc) ==
    \E t \in DOMAIN doc.wochenplan :
        \E i \in DOMAIN doc.wochenplan[t] : "slot" \in DOMAIN doc.wochenplan[t][i]

\* nothing is shown: before the first run, or when line 135 raises
KeineAnzeige ==
    [weekly |-> <<>>, rezept_nutrition |-> <<>>, einkaufsliste |-> <<>>, kategorie |-> <<>>]

\* what a run over doc shows: the dashboard's totals (tab1, lines 129-156),
\* the nutrition of every stored recipe (tab3, lines 559-572), the shopping
\* list and the category of each of its entries (tab5, lines 755-769).  Each
\* is <<>> when the run does not get there, <<value>> otherwise.
Anzeige(doc, sel) ==
    IF HasStrEntries(doc) THEN KeineAnzeige
    ELSE [weekly |-> <<weekly(doc)>>,
          rezept_nutrition |->
              IF ReachesTab3Form(doc)
              THEN <<[r \in DOMAIN doc.rezepte |->
                         calculate_recipe_nutrition(doc.rezepte[r], doc.zutaten)]>>
              ELSE <<>>,
          einkaufsliste |->
              IF ReachesTab6(doc, sel) THEN <<generate_shopping_list(doc)>> ELSE <<>>,
          kategorie |->
              IF ReachesTab6(doc, sel)
              THEN <<kategorie(doc, generate_shopping_list(doc))>>
              ELSE <<>>]

----------------------------------------------------------------------------
(* Backup import (tab6): validation and the three import modes *)

\* a validation that reports the first missing key only
missing_keys_first_only(b) ==
    LET all == SelectSeq(<<"zutaten", "rezepte", "wochenplan">>, LAMBDA k : k \notin DOMAIN b)
    IN  IF all = <<>> THEN <<>> ELSE <<all[1]>>

\* line 863: the required keys the uploaded document lacks, in order
missing_keys(b) == SelectSeq(RequiredKeys, LAMBDA k : k \notin DOMAIN b)

\* the import button is rendered only in the else branch of line 865
ImportOffered(b) == missing_keys(b) = <<>>

\* The merge loops return the list (or plan, or document) as the handler left
\* it and whether an exception ended the handler there.
Outcome(v, r) == [value |-> v, raised |-> r]

\* a loop in which the first incoming meal of a time stays: a later incoming
\* meal of the same time is left out
RECURSIVE OverwriteMealsFirstWins(_, _, _)
OverwriteMealsFirstWins(list, incoming, i) ==
    IF i > Len(incoming) THEN Outcome(list, FALSE)
    ELSE LET mahlzeit == incoming[i]
         IN  IF list # <<>> /\ (SortRaises(list) \/ ~HasZeit(mahlzeit))
             THEN Outcome(list, TRUE)
             ELSE IF \E j \in 1..(i - 1) : HasZeit(incoming[j]) /\ HasZeit(mahlzeit)
                                              /\ incoming[j].zeit = mahlzeit.zeit
             THEN OverwriteMealsFirstWins(list, incoming, i + 1)
             ELSE OverwriteMealsFirstWins(
                      Append(SelectSeq(list, LAMBDA m : m.zeit # mahlzeit.zeit), mahlzeit),
                      incoming, i + 1)

\* lines 919-925: for every incoming meal, drop the entries of the same time
\* and append it.  The comprehension reads m["zeit"] of the entries of the
\* list and of the incoming meal, so it raises only if the list is non-empty.
RECURSIVE OverwriteMeals(_, _, _)
OverwriteMeals(list, incoming, i) ==
    IF i > Len(incoming) THEN Outcome(list, FALSE)
    ELSE LET mahlzeit == incoming[i]
         IN  IF list # <<>> /\ (SortRaises(list) \/ ~HasZeit(mahlzeit))
             THEN Outcome(list, TRUE)
             ELSE OverwriteMeals(
                      Append(SelectSeq(list, LAMBDA m : m.zeit # mahlzeit.zeit), mahlzeit),
                      incoming, i + 1)

\* lines 918-927 for one day
OverwriteDay(list, incoming) ==
    IF SortRaises(list) THEN Outcome(list, TRUE)
    ELSE LET r == OverwriteMeals(list, incoming, 1)
         IN  IF r.raised THEN r
             ELSE IF SortRaises(r.value) THEN Outcome(r.value, TRUE)
             ELSE Outcome(SortByZeit(r.value), FALSE)

\* a loop that tests against the times of the list as it grows
RECURSIVE KeepMealsGrowingTimes(_, _, _, _)
KeepMealsGrowingTimes(list, incoming, i, existing_times) ==
    IF i > Len(incoming) THEN [value |-> list, raised |-> FALSE]
    ELSE LET mahlzeit == incoming[i]
         IN  IF ~HasZeit(mahlzeit) THEN [value |-> list, raised |-> TRUE]
             ELSE KeepMealsGrowingTimes(
                      IF mahlzeit.zeit \notin {list[k].zeit : k \in DOMAIN list}
                      THEN Append(list, mahlzeit) ELSE list,
                      incoming, i + 1, existing_times)

\* lines 954-957: append the incoming meals whose time is not among the
\* times the day had before the loop
RECURSIVE KeepMeals(_, _, _, _)
KeepMeals(list, incoming, i, existing_times) ==
    IF i > Len(incoming) THEN Outcome(list, FALSE)
    ELSE LET mahlzeit == incoming[i]
         IN  IF ~HasZeit(mahlzeit) THEN Outcome(list, TRUE)
             ELSE KeepMeals(IF mahlzeit.zeit \notin existing_times
                            THEN Append(list, mahlzeit) ELSE list,
                            incoming, i + 1, existing_times)

\* lines 953-959 for one day
KeepDay(list, incoming) ==
    IF SortRaises(list) THEN Outcome(list, TRUE)
    ELSE LET r == KeepMeals(list, incoming, 1, {list[k].zeit : k \in DOMAIN list})
         IN  IF r.raised THEN r ELSE Outcome(SortByZeit(r.value), FALSE)

\* lines 915-916 / 951-952: the incoming days in order; a day that is no key
\* of the current plan is skipped; the first exception ends the loop
RECURSIVE MergeDays(_, _, _, _, _)
MergeDays(plan, incoming, keys, i, overwrite) ==
    IF i > Len(keys) THEN Outcome(plan, FALSE)
    ELSE LET tag == keys[i]
         IN  IF tag \notin DOMAIN plan
             THEN MergeDays(plan, incoming, keys, i + 1, overwrite)
             ELSE LET r == IF overwrite THEN OverwriteDay(plan[tag], incoming[tag])
                                        ELSE KeepDay(plan[tag], incoming[tag])
                      next == [plan EXCEPT ![tag] = r.value]
                  IN  IF r.raised THEN Outcome(next, TRUE)
                      ELSE MergeDays(next, incoming, keys, i + 1, overwrite)

\* a keep-merge that takes the incoming entry of a name both have
KeepUpdateOverwrites(current, incoming) ==
    [k \in DOMAIN current \cup DOMAIN incoming |->
        IF k \in DOMAIN incoming THEN incoming[k] ELSE current[k]]

\* lines 939-947: add the names the current dict does not have
KeepUpdate(current, incoming) ==
    [k \in DOMAIN current \cup DOMAIN incoming |->
        IF k \in DOMAIN current THEN current[k] ELSE incoming[k]]

\* lines 909-927, up to save_data
MergeOverwrite(doc, b) ==
    LET z == DictUpdate(doc.zutaten, b.zutaten)
        r == DictUpdate(doc.rezepte, b.rezepte)
        w == MergeDays(doc.wochenplan, b.wochenplan, DayKeys(b.wochenplan), 1, TRUE)
    IN  Outcome(Doc(z, r, w.value), w.raised)

\* lines 934-959, up to save_data
MergeKeep(doc, b) ==
    LET z == KeepUpdate(doc.zutaten, b.zutaten)
        r == KeepUpdate(doc.rezepte, b.rezepte)
        w == MergeDays(doc.wochenplan, b.wochenplan, DayKeys(b.wochenplan), 1, FALSE)
    IN  Outcome(Doc(z, r, w.value), w.raised)

\* line 903: the uploaded document becomes the session's document
Replace(doc, b) == Outcome(b, FALSE)

ImportModes == {"Ersetzen", "Ueberschreiben", "Behalten"}

merge(doc, b, mode) ==
    CASE mode = "Ersetzen"       -> Replace(doc, b)
      [] mode = "Ueberschreiben" -> MergeOverwrite(doc, b)
      [] mode = "Behalten"       -> MergeKeep(doc, b)

----------------------------------------------------------------------------
(* The inputs the model draws from *)

Zutat(p, k, f, c, kat) ==
    [protein |-> p, kohlenhydrate |-> k, fett |-> f, kalorien |-> c, kategorie |-> kat]

ReisWerte == Zutat(7, 77, 1, 350, "Getreide & Backwaren")

BrokkoliWerte == Zutat(3, 7, 0, 34, "Obst & Gemuese")

\* text_input / number_input / selectbox values the model's user enters
ZutatNamen == {"Reis", "Brokkoli"}

\* the submissions of the "neue_zutat" form: <<name, values>>
ZutatEingaben ==
    { <<"", ReisWerte>>, <<"Reis", ReisWerte>>, <<"Reis", Zutat(8, 78, 2, 360, "Sonstiges")>>,
      <<"Brokkoli", BrokkoliWerte>> }

RezeptNamen == {"Bowl", "Suppe"}

Mengen == {0, 200}

Portionen == {2}

\* st.time_input: None (<<>>) or a time <<hour, minute>>
ZeitEingaben == {<<>>, <<8, 0>>, <<12, 0>>}

WaehlbareTage == {"Montag", "Dienstag"}

Rezept(z, p) == [zutaten |-> z, portionen |-> p]

Plan(mo, di) ==
    [t \in TageSet |-> IF t = "Montag" THEN mo ELSE IF t = "Dienstag" THEN di ELSE <<>>]

\* a data file written by the current version of the program
DateiAktuell ==
    Doc("Reis" :> ReisWerte,
        "Bowl" :> Rezept("Reis" :> 200, 2),
        Plan(<<Meal("08:00", "Bowl")>>, <<>>))

\* a data file written by the version with meal slots
AlterTag(f, m, a, sn) ==
    << [slot |-> "Fruehstueck", rezept |-> f], [slot |-> "Mittagessen", rezept |-> m],
       [slot |-> "Abendessen", rezept |-> a], [slot |-> "Snacks", rezept |-> sn] >>

DateiAlt ==
    Doc("Reis" :> ReisWerte,
        "Bowl" :> Rezept("Reis" :> 200, 2),
        [t \in TageSet |-> IF t = "Montag" THEN AlterTag("", "Bowl", "Bowl", "")
                           ELSE AlterTag("", "", "", "")])

StartDateien == {NoFile, DateiAktuell, DateiAlt}

\* uploaded backup documents
\* an export of another installation: same names, other values; two meals
\* share 08:00 on Montag
BackupExport ==
    Doc(("Reis" :> Zutat(8, 78, 2, 360, "Sonstiges")) @@ ("Brokkoli" :> BrokkoliWerte),
        ("Bowl" :> Rezept(("Reis" :> 100) @@ ("Brokkoli" :> 50), 1)),
        Plan(<<Meal("08:00", "Suppe"), Meal("08:00", "Bowl"), Meal("12:00", "Bowl")>>,
             <<Meal("18:00", "Bowl")>>))

\* a hand-edited document: Montag is not in time order, only two day keys
BackupUnsortiert ==
    Doc(EmptyDict,
        "Suppe" :> Rezept("Brokkoli" :> 200, 1),
        ("Montag" :> <<Meal("18:00", "Suppe"), Meal("08:00", "Suppe")>>)
            @@ ("Dienstag" :> <<>>))

\* a document whose second day holds a meal without "zeit"
BackupOhneZeit ==
    Doc("Brokkoli" :> Zutat(4, 8, 1, 40, "Sonstiges"),
        "Suppe" :> Rezept("Brokkoli" :> 200, 1),
        Plan(<<Meal("15:00", "Suppe")>>, <<Meal("08:00", "Suppe"), [rezept |-> "Suppe"]>>))

\* a backup in the old format: every day is a mapping
BackupAlt == DateiAlt

\* documents that lack required keys
BackupNurZutaten == [zutaten |-> "Reis" :> ReisWerte]

BackupOhnePlan == [zutaten |-> EmptyDict, rezepte |-> EmptyDict]

\* a backup with a negative ingredient value
BackupNegativ ==
    Doc("Brokkoli" :> Zutat(3, -7, 0, 34, "Obst & Gemuese"), EmptyDict, Plan(<<>>, <<>>))

\* uploaded CSV tables: a row of the table, its numeric cells as read by float()
CsvRow(name, p, k, f, c, kat) ==
    [Name |-> name, Protein |-> p, Kohlenhydrate |-> k, Fette |-> f, Kcal |-> c,
     Kategorie |-> kat]

CsvColumns == {"Name", "Protein", "Kohlenhydrate", "Fette", "Kcal", "Kategorie"}

CsvGut ==
    [columns |-> CsvColumns,
     rows |-> << CsvRow("Reis", <<9>>, <<79>>, <<3>>, <<370>>, ""),
                 CsvRow("Tofu", <<12>>, <<2>>, <<7>>, <<120>>, "Huelsenfruechte") >>]

CsvNegativ ==
    [columns |-> CsvColumns \ {"Kategorie"},
     rows |-> << CsvRow("Tofu", <<0 - 12>>, <<2>>, <<7>>, <<120>>, ""),
                 CsvRow("Quark", <<>>, <<4>>, <<0>>, <<67>>, "") >>]

CsvOhneKcal ==
    [columns |-> CsvColumns \ {"Kcal"},
     rows |-> << CsvRow("Tofu", <<12>>, <<2>>, <<7>>, <<>>, "") >>]

CsvDateien == {CsvGut, CsvNegativ, CsvOhneKcal}

DuplicateActions == {"Ueberspringen", "Ueberschreiben"}

Backups ==
    {BackupExport, BackupUnsortiert, BackupOhneZeit, BackupAlt, BackupNurZutaten,
     BackupOhnePlan}

----------------------------------------------------------------------------
(* State *)

\* session         "none" before st.session_state.data exists, then "running"
\* data            st.session_state.data
\* file            the contents of DATA_FILE, or NoFile
\* saved           whether the last interaction called save_data
\* selected_day    the value of the day selectbox of tab4
\* temp_zutaten    st.session_state.temp_zutaten: <<name, grams>> pairs
\* uploaded_backup <<>> or <<b>>, b the parsed document in the uploader of tab6
\* meldung         the message the last handler issued with st.error,
\*                 st.warning or st.success (<<>>: none)
\* anzeige         the derived values the user last read off the dashboard,
\*                 the recipe list and the shopping list (action Anzeigen)
Init ==
    /\ session = "none"
    /\ data = DefaultDoc
    /\ file \in StartDateien
    /\ saved = FALSE
    /\ selected_day = "Montag"
    /\ temp_zutaten = <<>>
    /\ uploaded_backup = <<>>
    /\ meldung = <<>>
    /\ anzeige = KeineAnzeige

\* the rest of the run after a handler of tab2 or tab3 that did not rerun
Continue(doc) == RenderTab4(doc, selected_day)

\* the run st.rerun() starts
Rerun(doc) == Render(doc, selected_day)

\* a handler that ends without save_data and without st.rerun()
Rejected(msg) ==
    /\ data' = Continue(data)
    /\ meldung' = msg
    /\ saved' = FALSE
    /\ UNCHANGED file

\* save_data(new), the message, st.rerun()
Saved(new, msg) ==
    /\ file' = save_data(new)
    /\ saved' = TRUE
    /\ data' = Rerun(new)
    /\ meldung' = msg

\* lines 106-107 and the first script run of a new session
Load ==
    /\ session' = "running"
    /\ data' = Render(load_data(file), "Montag")
    /\ file' = load_data_file(file)
    /\ saved' = (file # NoFile /\ IsLegacy(file))
    /\ selected_day' = "Montag"
    /\ temp_zutaten' = <<>>
    /\ uploaded_backup' = <<>>
    /\ meldung' = <<>>
    /\ UNCHANGED anzeige

\* a script run in which no handler fires (any widget change, the buttons of
\* lines 403-404 and 970-971), after which the user reads the dashboard, the
\* recipe list and the shopping list
Anzeigen ==
    /\ session = "running"
    /\ data' = Render(data, selected_day)
    /\ anzeige' = Anzeige(data', selected_day)
    /\ meldung' = <<>>
    /\ saved' = FALSE
    /\ UNCHANGED <<session, file, selected_day, temp_zutaten, uploaded_backup>>

\* the day selectbox (lines 611-625): a run that shows tab4 for day d
SelectDay(d) ==
    /\ session = "running"
    /\ ~Tab1Raises(data) /\ Tab4Shown(data)
    /\ selected_day' = d
    /\ data' = Render(data, d)
    /\ meldung' = <<>>
    /\ saved' = FALSE
    /\ UNCHANGED <<session, file, temp_zutaten, uploaded_backup>>
    /\ UNCHANGED anzeige

----------------------------------------------------------------------------
(* tab2: ingredients *)

\* an add handler without the test of line 216
AddZutatNoDuplicateTest(zutat_name, werte) ==
    /\ session = "running"
    /\ ReachesTab2(data)
    /\ IF zutat_name = ""
       THEN Rejected(<<>>)
       ELSE Saved([data EXCEPT !.zutaten = DictSet(@, zutat_name, werte)],
                  <<"success", "Zutat hinzugefuegt", zutat_name>>)
    /\ UNCHANGED <<session, selected_day, temp_zutaten, uploaded_backup>>
    /\ UNCHANGED anzeige

\* lines 215-228
AddZutat(zutat_name, werte) ==
    /\ session = "running"
    /\ ReachesTab2(data)
    /\ IF zutat_name = ""
       THEN Rejected(<<>>)
       ELSE IF zutat_name \in DOMAIN data.zutaten
       THEN Rejected(<<"error", "Zutat existiert bereits", zutat_name>>)
       ELSE Saved([data EXCEPT !.zutaten = DictSet(@, zutat_name, werte)],
                  <<"success", "Zutat hinzugefuegt", zutat_name>>)
    /\ UNCHANGED <<session, selected_day, temp_zutaten, uploaded_backup>>
    /\ UNCHANGED anzeige

\* a reference test that looks at the recipe names instead of their ingredients
used_in_recipe_names(doc, zutat_name) ==
    {r \in DOMAIN doc.rezepte : zutat_name = r}

\* line 436: the recipes that use the ingredient
used_in(doc, zutat_name) ==
    {r \in DOMAIN doc.rezepte : zutat_name \in DOMAIN doc.rezepte[r].zutaten}

\* lines 434-444
DeleteZutat(zutat_name) ==
    /\ session = "running"
    /\ ReachesTab2(data)
    /\ zutat_name \in DOMAIN data.zutaten
    /\ IF used_in(data, zutat_name) # {}
       THEN Rejected(<<"error", "Zutat wird noch verwendet", zutat_name>>)
       ELSE Saved([data EXCEPT !.zutaten = DictDel(@, zutat_name)],
                  <<"success", "Zutat geloescht", zutat_name>>)
    /\ UNCHANGED <<session, selected_day, temp_zutaten, uploaded_backup>>
    /\ UNCHANGED anzeige

----------------------------------------------------------------------------
(* tab2: CSV import of ingredients.  df is the parsed table: its columns     *)
(* after the renaming of lines 293-307 and its rows.  A numeric cell is <<n>> *)
(* when float() accepts its text and gives n, <<>> when float() raises.      *)

CsvRequired == <<"Name", "Protein", "Kohlenhydrate", "Fette", "Kcal">>

\* lines 310-311
CsvMissing(df) == SelectSeq(CsvRequired, LAMBDA col : col \notin df.columns)

\* lines 366-368 and 317-318: the cell's category, the selected default if
\* the cell is empty, "Sonstiges" if the table has no such column
CsvKategorie(df, row, default_kategorie) ==
    IF "Kategorie" \notin df.columns THEN "Sonstiges"
    ELSE IF row.Kategorie = "" THEN default_kategorie
    ELSE row.Kategorie

\* a loop that writes a row whatever the policy for duplicates is
RECURSIVE CsvLoopIgnoresPolicy(_, _, _, _, _, _)
CsvLoopIgnoresPolicy(st, df, i, existing_names, duplicate_action, default_kategorie) ==
    IF i > Len(df.rows) THEN st
    ELSE LET row == df.rows[i]
             name == row.Name
             next ==
                 IF \E col \in {"Protein", "Kohlenhydrate", "Fette", "Kcal"} : row[col] = <<>>
                 THEN [st EXCEPT !.errors = @ + 1]
                 ELSE [st EXCEPT
                          !.zutaten = DictSet(@, name,
                              Zutat(row.Protein[1], row.Kohlenhydrate[1], row.Fette[1],
                                    row.Kcal[1], CsvKategorie(df, row, default_kategorie))),
                          !.imported = @ + 1]
         IN  CsvLoopIgnoresPolicy(next, df, i + 1, existing_names, duplicate_action,
                                  default_kategorie)

\* lines 359-385: one row after the other; a row whose name was stored
\* before the loop is skipped under the skip policy; a row with a cell that
\* float() rejects is counted as an error and writes nothing
RECURSIVE CsvLoop(_, _, _, _, _, _)
CsvLoop(st, df, i, existing_names, duplicate_action, default_kategorie) ==
    IF i > Len(df.rows) THEN st
    ELSE LET row == df.rows[i]
             name == row.Name
             next ==
                 IF name \in existing_names /\ duplicate_action = "Ueberspringen"
                 THEN [st EXCEPT !.skipped = @ + 1]
                 ELSE IF \E col \in {"Protein", "Kohlenhydrate", "Fette", "Kcal"} : row[col] = <<>>
                 THEN [st EXCEPT !.errors = @ + 1]
                 ELSE [st EXCEPT
                          !.zutaten = DictSet(@, name,
                              Zutat(row.Protein[1], row.Kohlenhydrate[1], row.Fette[1],
                                    row.Kcal[1], CsvKategorie(df, row, default_kategorie))),
                          !.imported = @ + 1]
         IN  CsvLoop(next, df, i + 1, existing_names, duplicate_action, default_kategorie)

\* lines 278-400: the run in which "Zutaten importieren" is clicked for the
\* uploaded table df; with a required column missing the button is not
\* offered and the run only reports the missing columns
CsvImport(df, duplicate_action, default_kategorie) ==
    /\ session = "running"
    /\ ReachesTab2(data)
    /\ IF CsvMissing(df) # <<>>
       THEN /\ duplicate_action = "Ueberspringen"
            /\ Rejected(<<"error", "Fehlende Spalten", CsvMissing(df)>>)
       ELSE LET existing_names == DOMAIN data.zutaten
                new_names == {df.rows[i].Name : i \in DOMAIN df.rows}
                duplicates == existing_names \cap new_names
                r == CsvLoop([zutaten |-> data.zutaten, imported |-> 0, skipped |-> 0,
                              errors |-> 0],
                             df, 1, existing_names, duplicate_action, default_kategorie)
            IN  /\ duplicates = {} => duplicate_action = "Ueberspringen"
                /\ Saved([data EXCEPT !.zutaten = r.zutaten],
                         <<"csv", r.imported, r.skipped, r.errors>>)
    /\ UNCHANGED <<session, selected_day, temp_zutaten, uploaded_backup, anzeige>>

----------------------------------------------------------------------------
(* tab3: recipes *)

\* lines 482-490
AddTempZutat(selected_zutat, menge) ==
    /\ session = "running"
    /\ ReachesTab3Form(data)
    /\ selected_zutat \in DOMAIN data.zutaten \cup {""}
    /\ IF selected_zutat # "" /\ menge > 0
       THEN IF \E i \in DOMAIN temp_zutaten : temp_zutaten[i][1] = selected_zutat
            THEN /\ meldung' = <<"warning", "ist bereits in der Liste", selected_zutat>>
                 /\ UNCHANGED temp_zutaten
            ELSE /\ temp_zutaten' = Append(temp_zutaten, <<selected_zutat, menge>>)
                 /\ meldung' = <<>>
       ELSE /\ meldung' = <<>>
            /\ UNCHANGED temp_zutaten
    /\ data' = Continue(data)
    /\ saved' = FALSE
    /\ UNCHANGED <<session, file, selected_day, uploaded_backup>>
    /\ UNCHANGED anzeige

\* list.pop(idx), idx counted from 1
Pop(list, idx) == SubSeq(list, 1, idx - 1) \o SubSeq(list, idx + 1, Len(list))

\* lines 500-502
RemoveTempZutat(idx) ==
    /\ session = "running"
    /\ ReachesTab3Form(data)
    /\ idx \in DOMAIN temp_zutaten
    /\ temp_zutaten' = Pop(temp_zutaten, idx)
    /\ data' = Rerun(data)
    /\ meldung' = <<>>
    /\ saved' = FALSE
    /\ UNCHANGED <<session, file, selected_day, uploaded_backup>>
    /\ UNCHANGED anzeige

\* line 516: {z: m for z, m in temp_zutaten}
TempDict(temp) ==
    [z \in {temp[i][1] : i \in DOMAIN temp} |->
        LET last == CHOOSE i \in DOMAIN temp :
                        /\ temp[i][1] = z
                        /\ \A j \in DOMAIN temp : temp[j][1] = z => j <= i
        IN  temp[last][2]]

\* lines 507-522
SaveRezept(rezept_name, portionen) ==
    /\ session = "running"
    /\ ReachesTab3Form(data)
    /\ IF rezept_name = ""
       THEN Rejected(<<"error", "Bitte gib einen Rezeptnamen ein">>) /\ UNCHANGED temp_zutaten
       ELSE IF temp_zutaten = <<>>
       THEN Rejected(<<"error", "Bitte fuege mindestens eine Zutat hinzu">>)
            /\ UNCHANGED temp_zutaten
       ELSE IF rezept_name \in DOMAIN data.rezepte
       THEN Rejected(<<"error", "Rezept existiert bereits", rezept_name>>)
            /\ UNCHANGED temp_zutaten
       ELSE /\ Saved([data EXCEPT !.rezepte =
                        DictSet(@, rezept_name, Rezept(TempDict(temp_zutaten), portionen))],
                     <<"success", "Rezept gespeichert", rezept_name>>)
            /\ temp_zutaten' = <<>>
    /\ UNCHANGED <<session, selected_day, uploaded_backup>>
    /\ UNCHANGED anzeige

\* lines 524-526
ResetTemp ==
    /\ session = "running"
    /\ ReachesTab3Form(data)
    /\ temp_zutaten' = <<>>
    /\ data' = Rerun(data)
    /\ meldung' = <<>>
    /\ saved' = FALSE
    /\ UNCHANGED <<session, file, selected_day, uploaded_backup>>
    /\ UNCHANGED anzeige

\* lines 587-591: the scheduled meals that use the recipe
used_in_plan(doc, rezept_name) ==
    {<<t, i>> \in UNION {{t} \X DOMAIN doc.wochenplan[t] : t \in DOMAIN doc.wochenplan} :
        GetRezept(doc.wochenplan[t][i]) = rezept_name}

\* lines 585-599
DeleteRezept(rezept_name) ==
    /\ session = "running"
    /\ ReachesTab3Form(data)
    /\ rezept_name \in DOMAIN data.rezepte
    /\ IF used_in_plan(data, rezept_name) # {}
       THEN Rejected(<<"error", "Rezept wird noch im Wochenplan verwendet", rezept_name>>)
       ELSE Saved([data EXCEPT !.rezepte = DictDel(@, rezept_name)],
                  <<"success", "Rezept geloescht", rezept_name>>)
    /\ UNCHANGED <<session, selected_day, temp_zutaten, uploaded_backup>>
    /\ UNCHANGED anzeige

----------------------------------------------------------------------------
(* tab4: the weekly plan.  The handlers run after lines 622-625 of the same *)
(* run have sorted the selected day.                                         *)

\* a remove handler that deletes by time: every meal of the day that has
\* the time of the meal shown at idx
RemoveMealByTime(idx) ==
    /\ session = "running"
    /\ ReachesTab4Body(data, selected_day)
    /\ LET shown == RenderTab4(data, selected_day)
       IN  /\ idx \in DOMAIN shown.wochenplan[selected_day]
           /\ Saved([shown EXCEPT !.wochenplan[selected_day] =
                         SelectSeq(@, LAMBDA m : m.zeit # @[idx].zeit)], <<>>)
    /\ UNCHANGED <<session, selected_day, temp_zutaten, uploaded_backup>>
    /\ UNCHANGED anzeige

\* lines 659-662
RemoveMeal(idx) ==
    /\ session = "running"
    /\ ReachesTab4Body(data, selected_day)
    /\ LET shown == RenderTab4(data, selected_day)
       IN  /\ idx \in DOMAIN shown.wochenplan[selected_day]
           /\ Saved([shown EXCEPT !.wochenplan[selected_day] = Pop(@, idx)], <<>>)
    /\ UNCHANGED <<session, selected_day, temp_zutaten, uploaded_backup>>
    /\ UNCHANGED anzeige

\* an add handler that keeps one meal per time: the new meal takes the place
\* of the meals that have its time
AddMealOnePerTime(neue_zeit, neues_rezept) ==
    /\ session = "running"
    /\ ReachesTab4Body(data, selected_day)
    /\ neues_rezept \in DOMAIN data.rezepte \cup {""}
    /\ LET shown == RenderTab4(data, selected_day)
       IN  IF neue_zeit = <<>>
           THEN Rejected(<<"error", "Bitte waehle eine Uhrzeit">>)
           ELSE IF neues_rezept = ""
           THEN Rejected(<<"error", "Bitte waehle ein Rezept">>)
           ELSE /\ Len(shown.wochenplan[selected_day]) < MaxMeals
                /\ LET zeit_str == strftime(neue_zeit)
                   IN  Saved([shown EXCEPT !.wochenplan[selected_day] =
                                 SortByZeit(Append(SelectSeq(@, LAMBDA m : m.zeit # zeit_str),
                                                   Meal(zeit_str, neues_rezept)))],
                             <<"success", "Mahlzeit hinzugefuegt", zeit_str>>)
    /\ UNCHANGED <<session, selected_day, temp_zutaten, uploaded_backup>>
    /\ UNCHANGED anzeige

\* lines 693-713
AddMeal(neue_zeit, neues_rezept) ==
    /\ session = "running"
    /\ ReachesTab4Body(data, selected_day)
    /\ neues_rezept \in DOMAIN data.rezepte \cup {""}
    /\ LET shown == RenderTab4(data, selected_day)
       IN  IF neue_zeit = <<>>
           THEN Rejected(<<"error", "Bitte waehle eine Uhrzeit">>)
           ELSE IF neues_rezept = ""
           THEN Rejected(<<"error", "Bitte waehle ein Rezept">>)
           ELSE /\ Len(shown.wochenplan[selected_day]) < MaxMeals
                /\ LET zeit_str == strftime(neue_zeit)
                   IN  Saved([shown EXCEPT !.wochenplan[selected_day] =
                                 SortByZeit(Append(@, Meal(zeit_str, neues_rezept)))],
                             <<"success", "Mahlzeit hinzugefuegt", zeit_str>>)
    /\ UNCHANGED <<session, selected_day, temp_zutaten, uploaded_backup>>
    /\ UNCHANGED anzeige

\* lines 737-741
ClearDay ==
    /\ session = "running"
    /\ ReachesTab4Body(data, selected_day)
    /\ Saved([RenderTab4(data, selected_day) EXCEPT !.wochenplan[selected_day] = <<>>],
             <<"success", "Tag geleert", selected_day>>)
    /\ UNCHANGED <<session, selected_day, temp_zutaten, uploaded_backup>>
    /\ UNCHANGED anzeige

\* lines 744-749
ClearWeek ==
    /\ session = "running"
    /\ ReachesTab4Body(data, selected_day)
    /\ Saved([data EXCEPT !.wochenplan = [t \in DOMAIN @ |-> <<>>]],
             <<"success", "Wochenplan zurueckgesetzt">>)
    /\ UNCHANGED <<session, selected_day, temp_zutaten, uploaded_backup>>
    /\ UNCHANGED anzeige

----------------------------------------------------------------------------
(* tab6: backup import *)

\* what tab6 shows for the uploaded document (lines 865-866): the missing keys
fehlende_daten == IF uploaded_backup = <<>> THEN <<>> ELSE missing_keys(uploaded_backup[1])

\* lines 849-878: a document is put into the uploader and validated
Upload(b) ==
    /\ session = "running"
    /\ ReachesTab6(data, selected_day)
    /\ uploaded_backup' = <<b>>
    /\ data' = Continue(data)
    /\ meldung' = <<>>
    /\ saved' = FALSE
    /\ UNCHANGED <<session, file, selected_day, temp_zutaten>>
    /\ UNCHANGED anzeige

\* the st.success of the import modes (lines 905, 930, 962)
ImportMeldung(import_mode) ==
    CASE import_mode = "Ersetzen"       -> <<"success", "Daten wiederhergestellt">>
      [] import_mode = "Ueberschreiben" -> <<"success", "Daten zusammengefuehrt">>
      [] import_mode = "Behalten"       -> <<"success", "Hinzugefuegt">>

\* lines 899-967
Import(import_mode) ==
    /\ session = "running"
    /\ ReachesTab6(data, selected_day)
    /\ uploaded_backup # <<>>
    /\ ImportOffered(uploaded_backup[1])
    /\ LET r == merge(RenderTab4(data, selected_day), uploaded_backup[1], import_mode)
       IN  IF r.raised
           THEN /\ data' = r.value
                /\ meldung' = <<"error", "Fehler beim Import">>
                /\ saved' = FALSE
                /\ UNCHANGED file
           ELSE Saved(r.value, ImportMeldung(import_mode))
    /\ UNCHANGED <<session, selected_day, temp_zutaten, uploaded_backup, anzeige>>

----------------------------------------------------------------------------

Next ==
    \/ Load
    \/ \E d \in WaehlbareTage : SelectDay(d)
    \/ \E e \in ZutatEingaben : AddZutat(e[1], e[2])
    \/ \E n \in ZutatNamen : DeleteZutat(n)
    \/ \E z \in ZutatNamen \cup {""}, m \in Mengen : AddTempZutat(z, m)
    \/ \E i \in 1..Cardinality(ZutatNamen) : RemoveTempZutat(i)
    \/ \E n \in RezeptNamen \cup {""}, p \in Portionen : SaveRezept(n, p)
    \/ ResetTemp
    \/ \E n \in RezeptNamen : DeleteRezept(n)
    \/ \E i \in 1..(MaxMeals + 3) : RemoveMeal(i)
    \/ \E z \in ZeitEingaben, r \in RezeptNamen \cup {""} : AddMeal(z, r)
    \/ ClearDay
    \/ ClearWeek
    \/ \E b \in Backups : Upload(b)
    \/ \E m \in ImportModes : Import(m)
    \/ Anzeigen
    \/ \E df \in CsvDateien, a \in DuplicateActions : CsvImport(df, a, "Sonstiges")

Spec == Init /\ [][Next]_vars

\* The catalogue: ingredients, recipes and the plan, without backup import
NextKatalog ==
    \/ Load
    \/ \E d \in WaehlbareTage : SelectDay(d)
    \/ \E e \in ZutatEingaben : AddZutat(e[1], e[2])
    \/ \E n \in ZutatNamen : DeleteZutat(n)
    \/ \E z \in ZutatNamen \cup {""}, m \in Mengen : AddTempZutat(z, m)
    \/ \E i \in 1..Cardinality(ZutatNamen) : RemoveTempZutat(i)
    \/ \E n \in RezeptNamen \cup {""}, p \in Portionen : SaveRezept(n, p)
    \/ ResetTemp
    \/ \E n \in RezeptNamen : DeleteRezept(n)
    \/ \E i \in 1..MaxMeals : RemoveMeal(i)
    \/ \E z \in {<<>>, <<8, 0>>}, r \in {"", "Bowl"} : AddMeal(z, r)
    \/ ClearDay
    \/ ClearWeek

SpecKatalog == Init /\ [][NextKatalog]_vars

\* The plan and backup import, on the documents the start files and the
\* backups hold
NextImport ==
    \/ Load
    \/ \E d \in WaehlbareTage : SelectDay(d)
    \/ AddMeal(<<12, 0>>, "Bowl")
    \/ ClearWeek
    \/ \E b \in Backups : Upload(b)
    \/ \E m \in ImportModes : Import(m)

SpecImport == Init /\ [][NextImport]_vars

\* Loads of stored files: the files new sessions may find in DATA_FILE
\* a day of the old format with three slots; one with slots out of time
\* order and a slot name the table does not have
DreiSlots(f, m, a) ==
    << [slot |-> "Fruehstueck", rezept |-> f], [slot |-> "Mittagessen", rezept |-> m],
       [slot |-> "Abendessen", rezept |-> a] >>

FremdeSlots(sn, b, f) ==
    << [slot |-> "Snacks", rezept |-> sn], [slot |-> "Brunch", rezept |-> b],
       [slot |-> "Fruehstueck", rezept |-> f] >>

AlteTage ==
    {AlterTag(f, m, a, sn) : f \in {"", "Bowl"}, m \in {"", "Bowl"}, a \in {"", "Suppe"},
                             sn \in {"", "Bowl"}}
        \cup {DreiSlots("Bowl", "", "Suppe")}
        \cup {FremdeSlots(sn, b, f) : sn \in {"", "Suppe"}, b \in {"", "Bowl"}, f \in {"", "Bowl"}}

AlteDateien ==
    {Doc("Reis" :> ReisWerte, "Bowl" :> Rezept("Reis" :> 200, 2),
         [t \in TageSet |-> IF t = "Montag" THEN mo
                            ELSE IF t = "Dienstag" THEN di
                            ELSE AlterTag("", "", "", "")]) :
        mo \in AlteTage,
        di \in {AlterTag("", "", "", ""), AlterTag("Bowl", "", "Bowl", "Bowl"),
                 FremdeSlots("Suppe", "Bowl", "Bowl")}}

AktuelleTage ==
    {<<>>, <<Meal("08:00", "Bowl")>>, <<Meal("08:00", "Bowl"), Meal("12:00", "Suppe")>>,
     <<Meal("18:00", "Suppe"), Meal("08:00", "Bowl")>>}

AktuelleDateien ==
    {Doc("Reis" :> ReisWerte, "Bowl" :> Rezept("Reis" :> 200, 2), Plan(mo, di)) :
        mo \in AktuelleTage, di \in AktuelleTage}

LadeDateien == {NoFile, DateiAlt} \cup AlteDateien \cup AktuelleDateien

InitLaden ==
    /\ session = "none"
    /\ data = DefaultDoc
    /\ file \in LadeDateien
    /\ saved = FALSE
    /\ selected_day = "Montag"
    /\ temp_zutaten = <<>>
    /\ uploaded_backup = <<>>
    /\ meldung = <<>>
    /\ anzeige = KeineAnzeige

\* every new session loads the file the last one left
NextLaden == Load

SpecLaden == InitLaden /\ [][NextLaden]_vars

\* The plan: add, remove and clear, on plans a Replace import has installed
\* as well as on the plans of the start files
PlanBackups == {BackupExport, BackupUnsortiert}

NextPlan ==
    \/ Load
    \/ \E d \in WaehlbareTage : SelectDay(d)
    \/ \E z \in ZeitEingaben, r \in RezeptNamen \cup {""} : AddMeal(z, r)
    \/ \E i \in 1..(MaxMeals + 1) : RemoveMeal(i)
    \/ ClearDay
    \/ ClearWeek
    \/ \E b \in PlanBackups : Upload(b)
    \/ Import("Ersetzen")

SpecPlan == Init /\ [][NextPlan]_vars

\* The ingredient set: manual add, delete, CSV import and backup import
NextZutaten ==
    \/ Load
    \/ \E e \in ZutatEingaben : AddZutat(e[1], e[2])
    \/ \E n \in ZutatNamen \cup {"Tofu"} : DeleteZutat(n)
    \/ \E df \in CsvDateien, a \in DuplicateActions : CsvImport(df, a, "Sonstiges")
    \/ \E b \in {BackupExport, BackupNegativ} : Upload(b)
    \/ \E m \in ImportModes : Import(m)

SpecZutaten == Init /\ [][NextZutaten]_vars

\* The derived values, on stored documents with recipes the plan names
\* more than once, meals whose recipe is not stored and recipe ingredients
\* that are not stored
AnzeigeDateien ==
    {Doc(z, r, Plan(mo, di)) :
        z \in {EmptyDict, "Reis" :> ReisWerte, "Brokkoli" :> BrokkoliWerte,
               ("Reis" :> ReisWerte) @@ ("Brokkoli" :> BrokkoliWerte)},
        r \in {"Bowl" :> Rezept(("Reis" :> 200) @@ ("Brokkoli" :> 50), 2),
               ("Bowl" :> Rezept(("Reis" :> 200) @@ ("Brokkoli" :> 50), 2))
                   @@ ("Suppe" :> Rezept("Brokkoli" :> 100, 1))},
        mo \in {<<>>, <<Meal("08:00", "Bowl")>>,
                <<Meal("08:00", "Bowl"), Meal("12:00", "Suppe")>>,
                <<Meal("08:00", "Bowl"), Meal("12:00", "Bowl")>>},
        di \in {<<>>, <<Meal("08:00", "Bowl")>>, <<Meal("18:00", "Suppe")>>}}

InitAnzeige ==
    /\ session = "none"
    /\ data = DefaultDoc
    /\ file \in AnzeigeDateien
    /\ saved = FALSE
    /\ selected_day = "Montag"
    /\ temp_zutaten = <<>>
    /\ uploaded_backup = <<>>
    /\ meldung = <<>>
    /\ anzeige = KeineAnzeige

NextAnzeige ==
    \/ Load
    \/ \E d \in WaehlbareTage : SelectDay(d)
    \/ Anzeigen

SpecAnzeige == InitAnzeige /\ [][NextAnzeige]_vars

----------------------------------------------------------------------------
(* Claims *)

\* the document a load of the file returns without migrating it
Persisted(f) == IF f = NoFile THEN DefaultDoc ELSE f

\* adjacent entries of a list are in ascending order of their time strings
InTimeOrder(list) ==
    \A i \in 1..(Len(list) - 1) :
        (HasZeit(list[i]) /\ HasZeit(list[i + 1])) => ~StrLess(list[i + 1].zeit, list[i].zeit)

ImportFehler == <<"error", "Fehler beim Import">>

\* C1: after any sequence of document operations (load, add meal, remove
\* meal, clear day, clear week, backup import in any mode) every day's meal
\* list of the in-memory document is sorted ascending by time-of-day.
C1_EveryDaySorted ==
    session = "running" =>
        \A t \in DOMAIN data.wochenplan : InTimeOrder(data.wochenplan[t])

\* C2: after every completed user action the persisted document equals the
\* in-memory document: no change of the in-memory document is left unsaved.
C2_MemoryEqualsFile == session = "running" => Persisted(file) = data

\* C3: a backup import that fails after it has started leaves the in-memory
\* document and the persisted document exactly as they were before it.
C3_ImportAllOrNothing ==
    [][((\E m \in ImportModes : Import(m)) /\ meldung' = ImportFehler)
           => (data' = data /\ file' = file)]_vars

\* the number of entries of a list that equal m
Count(list, m) == Cardinality({i \in DOMAIN list : list[i] = m})

Entries(list) == {list[i] : i \in DOMAIN list}

Times(list) == {list[i].zeit : i \in {k \in DOMAIN list : HasZeit(list[k])}}

Completed(mode) == meldung' = ImportMeldung(mode) /\ Import(mode)

C5_OverwriteKeepsEveryIncoming ==
    [][Completed("Ueberschreiben") =>
          \A t \in DOMAIN data.wochenplan \cap DOMAIN uploaded_backup[1].wochenplan :
              LET old == data.wochenplan[t]
                  inc == uploaded_backup[1].wochenplan[t]
                  res == data'.wochenplan[t]
              IN  /\ \A i \in DOMAIN inc : inc[i] \in Entries(res)
                  /\ \A i \in DOMAIN old : old[i].zeit \notin Times(inc) => old[i] \in Entries(res)
                  /\ InTimeOrder(res)]_vars

\* C6: a completed Merge-keep leaves, for each day of the plan, every meal
\* the day had (as often as it had it), adds an incoming meal if and only if
\* no meal the day had before the merge has the same time, and leaves the
\* list sorted by time.
C6_KeepMergePlan ==
    [][Completed("Behalten") =>
          \A t \in DOMAIN data.wochenplan \cap DOMAIN uploaded_backup[1].wochenplan :
              LET old == data.wochenplan[t]
                  inc == uploaded_backup[1].wochenplan[t]
                  res == data'.wochenplan[t]
              IN  /\ \A m \in Entries(old) \cup Entries(inc) \cup Entries(res) :
                         Count(res, m) = Count(old, m)
                             + (IF m.zeit \in Times(old) THEN 0 ELSE Count(inc, m))
                  /\ InTimeOrder(res)]_vars

C6_Witness ==
    /\ meldung = ImportMeldung("Behalten")
    /\ uploaded_backup = <<BackupExport>>
    /\ data.wochenplan["Montag"] =
           <<Meal("08:00", "Suppe"), Meal("08:00", "Bowl"), Meal("12:00", "Bowl"),
             Meal("12:00", "Bowl")>>
    /\ data.wochenplan["Dienstag"] = <<Meal("12:00", "Bowl"), Meal("18:00", "Bowl")>>

\* the entries of a merged dict: left-biased (keep) or right-biased
MergedDict(res, cur, inc, keep) ==
    /\ DOMAIN res = DOMAIN cur \cup DOMAIN inc
    /\ \A n \in DOMAIN cur \cap DOMAIN inc : res[n] = IF keep THEN cur[n] ELSE inc[n]
    /\ \A n \in DOMAIN cur \ DOMAIN inc : res[n] = cur[n]
    /\ \A n \in DOMAIN inc \ DOMAIN cur : res[n] = inc[n]

\* C7: Merge-keep never overwrites: an ingredient or recipe name that both
\* documents have keeps the current value, a name only the incoming document
\* has is added with its value, a name only the current document has is kept.
C7_KeepNeverOverwrites ==
    [][Completed("Behalten") =>
          /\ MergedDict(data'.zutaten, data.zutaten, uploaded_backup[1].zutaten, TRUE)
          /\ MergedDict(data'.rezepte, data.rezepte, uploaded_backup[1].rezepte, TRUE)]_vars

C7_Witness ==
    /\ meldung = ImportMeldung("Behalten")
    /\ uploaded_backup = <<BackupExport>>
    /\ data.zutaten = ("Reis" :> ReisWerte) @@ ("Brokkoli" :> BrokkoliWerte)
    /\ data.rezepte = DateiAktuell.rezepte
    /\ data.rezepte["Bowl"] # BackupExport.rezepte["Bowl"]

WithoutEntry(res, cur, n) ==
    /\ DOMAIN res = DOMAIN cur \ {n}
    /\ \A k \in DOMAIN res : res[k] = cur[k]

\* C9: deleting an ingredient that a recipe lists, or a recipe that a meal
\* of the weekly plan names, is rejected and changes neither the catalog in
\* memory nor the file; deleting an unreferenced one removes exactly that
\* entry, in memory and in the file.
C9_DeleteProtectsReferences ==
    [][/\ \A z \in ZutatNamen :
              \/ IF \E r \in DOMAIN data.rezepte : z \in DOMAIN data.rezepte[r].zutaten
                 THEN /\ data'.zutaten = data.zutaten
                      /\ data'.rezepte = data.rezepte
                      /\ file' = file
                 ELSE /\ WithoutEntry(data'.zutaten, data.zutaten, z)
                      /\ data'.rezepte = data.rezepte
                      /\ file' = data'
              \/ ~DeleteZutat(z)
       /\ \A n \in RezeptNamen :
              \/ IF \E t \in DOMAIN data.wochenplan : \E i \in DOMAIN data.wochenplan[t] :
                        data.wochenplan[t][i].rezept = n
                 THEN /\ data'.rezepte = data.rezepte
                      /\ data'.zutaten = data.zutaten
                      /\ file' = file
                 ELSE /\ WithoutEntry(data'.rezepte, data.rezepte, n)
                      /\ data'.zutaten = data.zutaten
                      /\ file' = data'
              \/ ~DeleteRezept(n)]_vars

C9_Witness ==
    /\ meldung = <<"error", "Zutat wird noch verwendet", "Reis">>
    /\ "Reis" \in DOMAIN data.zutaten
    /\ \E r \in DOMAIN data.rezepte : "Reis" \in DOMAIN data.rezepte[r].zutaten
    /\ file = data

\* C10: a create that fails its validation (an ingredient or a recipe under
\* a name that exists, a recipe without a name or without ingredients, a
\* meal without a time or a recipe) leaves the document as it was and writes
\* nothing; the entry under the duplicate name keeps its value.  The
\* document "as it was" is taken up to the order lines 622-625 give the
\* selected day's list in every run.
C10_FailedCreateMutatesNothing ==
    [][LET Untouched == /\ file' = file
                        /\ ~saved'
                        /\ data' = RenderTab4(data, selected_day)
           FailedAddZutat == \E e \in ZutatEingaben :
               /\ e[1] = "" \/ e[1] \in DOMAIN data.zutaten
               /\ AddZutat(e[1], e[2])
           FailedSaveRezept == \E n \in RezeptNamen \cup {""} : \E p \in Portionen :
               /\ n = "" \/ temp_zutaten = <<>> \/ n \in DOMAIN data.rezepte
               /\ SaveRezept(n, p)
           FailedAddMeal == \E z \in ZeitEingaben : \E r \in RezeptNamen \cup {""} :
               /\ z = <<>> \/ r = ""
               /\ AddMeal(z, r)
       IN  Untouched \/ ~(FailedAddZutat \/ FailedSaveRezept \/ FailedAddMeal)]_vars

C10_Witness ==
    /\ meldung = <<"error", "Zutat existiert bereits", "Reis">>
    /\ data.zutaten["Reis"] = ReisWerte
    /\ file = data
    /\ ~saved

\* the time of day the migration gives a slot
SlotZeit(slot) ==
    IF slot = "Fruehstueck" THEN "08:00"
    ELSE IF slot = "Snacks" THEN "15:00"
    ELSE IF slot = "Abendessen" THEN "18:00"
    ELSE "12:00"

\* every value of the plan is a mapping / a list
AllMappings(plan) == \A t \in DOMAIN plan : plan[t] # <<>> /\ \A i \in DOMAIN plan[t] : "slot" \in DOMAIN plan[t][i]

AllLists(plan) == \A t \in DOMAIN plan : \A i \in DOMAIN plan[t] : "slot" \notin DOMAIN plan[t][i]

\* new is the list the claim describes for the mapping old
MigratedDay(old, new) ==
    /\ \A j \in DOMAIN new : DOMAIN new[j] = {"zeit", "rezept"}
    /\ Len(new) = Cardinality({i \in DOMAIN old : old[i].rezept # ""})
    /\ \A m \in Entries(new) \cup {Meal(SlotZeit(old[i].slot), old[i].rezept) : i \in DOMAIN old} :
           Count(new, m) = Cardinality({i \in DOMAIN old :
                               old[i].rezept # "" /\ m = Meal(SlotZeit(old[i].slot), old[i].rezept)})
    /\ InTimeOrder(new)

\* C11: a load that finds the weekly plan in the old format (the first
\* day's value is a mapping) rewrites every day to a list with exactly one
\* {zeit, rezept} entry per slot whose recipe is non-empty, the time taken
\* from the slot table (any other slot name 12:00), sorted by time, in the
\* document it returns and in the file.
C11_MigrationRewritesDays ==
    [][(file # NoFile /\ AllMappings(file.wochenplan) /\ Load) =>
          /\ DOMAIN file'.wochenplan = DOMAIN file.wochenplan
          /\ \A t \in DOMAIN file.wochenplan :
                 MigratedDay(file.wochenplan[t], file'.wochenplan[t])
          /\ data'.wochenplan = file'.wochenplan]_vars

C11_Witness ==
    /\ session = "running"
    /\ file # NoFile
    /\ file.wochenplan["Montag"] = <<Meal("08:00", "Bowl"), Meal("18:00", "Suppe")>>
    /\ file.wochenplan["Dienstag"] =
           <<Meal("08:00", "Bowl"), Meal("12:00", "Bowl"), Meal("15:00", "Suppe")>>
    /\ data = file
    /\ saved

\* C12: migration is idempotent: for a stored document in the old or the
\* current format, migrating the migrated document gives the migrated
\* document, and a document in the current format is returned unchanged (by
\* the function and by the load that applies it).
C12_MigrationIdempotent ==
    [][(file # NoFile /\ Load) =>
          /\ load_data(load_data(file)) = load_data(file)
          /\ AllLists(file.wochenplan) => (load_data(file) = file /\ file' = file)]_vars

C12_Witness ==
    /\ session = "running"
    /\ ~saved
    /\ file \in {load_data(f) : f \in AlteDateien}
    /\ file.wochenplan["Montag"] = <<Meal("08:00", "Bowl"), Meal("18:00", "Suppe")>>

\* C13: a load of a document in the old format writes the migrated document
\* to the file in that same load, so the file is in the current format
\* afterwards and every later load migrates nothing and writes nothing; a
\* load of a document in the current format, or without a file, never
\* writes.
C13_MigrationPersistedOnce ==
    /\ [][\/ IF file # NoFile /\ AllMappings(file.wochenplan)
             THEN saved' /\ file' # file /\ file' = data' /\ AllLists(file'.wochenplan)
             ELSE ~saved' /\ file' = file
          \/ ~Load]_vars
    /\ [](session = "running" => (file # NoFile => AllLists(file.wochenplan)))
    /\ [][session = "running" /\ Load => (~saved' /\ file' = file)]_vars

C13_Witness ==
    /\ session = "running"
    /\ ~saved
    /\ file = load_data(DateiAlt)
    /\ file # DateiAlt

\* C14: after any sequence of operations (load, add meal, clear week,
\* backup import in any mode) the in-memory weekly plan has all seven day
\* keys, each mapped to a list.
C14_SevenDayKeys ==
    session = "running" =>
        /\ DOMAIN data.wochenplan = TageSet
        /\ AllLists(data.wochenplan)

\* the sum of the values of a function with a finite domain
RECURSIVE SumFn(_)
SumFn(f) ==
    IF DOMAIN f = {} THEN 0
    ELSE LET x == CHOOSE y \in DOMAIN f : TRUE
         IN  f[x] + SumFn([y \in DOMAIN f \ {x} |-> f[y]])

\* what ingredient z adds to amount k of a recipe, in hundredths
Contribution(rezept, zutaten, z, k) ==
    IF z \in DOMAIN rezept.zutaten /\ z \in DOMAIN zutaten
    THEN zutaten[z][k] * rezept.zutaten[z]
    ELSE 0

RecipeTotal(rezept, zutaten, k) ==
    SumFn([z \in DOMAIN rezept.zutaten |-> Contribution(rezept, zutaten, z, k)])

\* the places <<day, index>> of the plan whose meal names a stored recipe
Occurrences(doc) ==
    UNION {{<<t, i>> : i \in {j \in DOMAIN doc.wochenplan[t] :
                                /\ "rezept" \in DOMAIN doc.wochenplan[t][j]
                                /\ doc.wochenplan[t][j].rezept # ""
                                /\ doc.wochenplan[t][j].rezept \in DOMAIN doc.rezepte}} :
           t \in DOMAIN doc.wochenplan}

RecipeAt(doc, o) == doc.rezepte[doc.wochenplan[o[1]][o[2]].rezept]

\* C15: calculate_recipe_nutrition gives, for each of protein,
\* kohlenhydrate, fett and kalorien, the sum over the recipe's ingredients
\* that the ingredient map has of value * grams / 100 (carried in
\* hundredths); an ingredient the map lacks adds nothing, so without one
\* ingredient in the map each total is lower by exactly that ingredient's
\* contribution; the result has exactly the four keys.
C15_RecipeNutrition ==
    [][(Anzeigen /\ anzeige'.rezept_nutrition # <<>>) =>
          LET shown == anzeige'.rezept_nutrition[1]
          IN  /\ DOMAIN shown = DOMAIN data'.rezepte
              /\ \A r \in DOMAIN data'.rezepte :
                     /\ DOMAIN shown[r] = NutritionKeys
                     /\ \A k \in NutritionKeys :
                            /\ shown[r][k] = RecipeTotal(data'.rezepte[r], data'.zutaten, k)
                            /\ \A z \in DOMAIN data'.zutaten :
                                   calculate_recipe_nutrition(
                                       data'.rezepte[r], DictDel(data'.zutaten, z))[k]
                                     = shown[r][k]
                                         - Contribution(data'.rezepte[r], data'.zutaten, z, k)]_vars

C15_Witness ==
    /\ anzeige.rezept_nutrition # <<>>
    /\ DOMAIN data.zutaten = {"Reis", "Brokkoli"}
    /\ "Bowl" \in DOMAIN data.rezepte
    /\ anzeige.rezept_nutrition[1]["Bowl"]["kalorien"] = 350 * 200 + 34 * 50
    /\ calculate_recipe_nutrition(data.rezepte["Bowl"],
                                  DictDel(data.zutaten, "Brokkoli"))["kalorien"] = 350 * 200

\* C16: the weekly aggregation counts meal occurrences, not distinct
\* recipes: meal_count is the number of meals of all days whose recipe is
\* stored, each weekly total is the sum over those occurrences of the whole
\* recipe's amount (not divided by its servings), and a meal whose recipe is
\* not stored adds to neither.
C16_WeeklyCountsOccurrences ==
    [][(Anzeigen /\ anzeige'.weekly # <<>>) =>
          LET shown == anzeige'.weekly[1]
          IN  /\ shown.meal_count = Cardinality(Occurrences(data'))
              /\ \A k \in NutritionKeys :
                     shown.weekly_totals[k] =
                         SumFn([o \in Occurrences(data') |->
                                   RecipeTotal(RecipeAt(data', o), data'.zutaten, k)])]_vars

C16_Witness ==
    /\ anzeige.weekly # <<>>
    /\ data.wochenplan["Montag"] = <<Meal("08:00", "Bowl"), Meal("12:00", "Suppe")>>
    /\ data.wochenplan["Dienstag"] = <<Meal("08:00", "Bowl")>>
    /\ DOMAIN data.rezepte = {"Bowl"}
    /\ data.zutaten = "Reis" :> ReisWerte
    /\ anzeige.weekly[1].meal_count = 2
    /\ anzeige.weekly[1].weekly_totals["kalorien"] = 2 * 350 * 200

\* C17: generate_shopping_list maps each ingredient name to the sum, over
\* every meal of every day whose recipe is stored, of that recipe's grams of
\* the ingredient (the whole recipe, not divided by servings); a name that
\* no such meal's recipe lists has no entry; the document is not modified.
C17_ShoppingList ==
    [][(Anzeigen /\ anzeige'.einkaufsliste # <<>>) =>
          LET liste == anzeige'.einkaufsliste[1]
          IN  /\ DOMAIN liste =
                     UNION {DOMAIN RecipeAt(data', o).zutaten : o \in Occurrences(data')}
              /\ \A z \in DOMAIN liste :
                     liste[z] = SumFn([o \in {q \in Occurrences(data') :
                                                  z \in DOMAIN RecipeAt(data', q).zutaten} |->
                                          RecipeAt(data', o).zutaten[z]])
              /\ data' = Render(data, selected_day)
              /\ file' = file]_vars

C17_Witness ==
    /\ anzeige.einkaufsliste # <<>>
    /\ data.wochenplan["Montag"] = <<Meal("08:00", "Bowl"), Meal("12:00", "Bowl")>>
    /\ data.wochenplan["Dienstag"] = <<Meal("18:00", "Suppe")>>
    /\ DOMAIN data.rezepte = {"Bowl"}
    /\ anzeige.einkaufsliste[1] = ("Reis" :> 400) @@ ("Brokkoli" :> 100)

\* the document without its meals whose recipe is not stored
WithoutDanglingMeals(doc) ==
    [doc EXCEPT !.wochenplan =
        [t \in DOMAIN doc.wochenplan |->
            SelectSeq(doc.wochenplan[t],
                      LAMBDA m : GetRezept(m) # "" /\ GetRezept(m) \in DOMAIN doc.rezepte)]]

\* ... and without the recipe ingredients that are not stored
WithoutDanglingIngredients(doc) ==
    [doc EXCEPT !.rezepte =
        [r \in DOMAIN doc.rezepte |->
            [doc.rezepte[r] EXCEPT !.zutaten =
                [z \in DOMAIN doc.rezepte[r].zutaten \cap DOMAIN doc.zutaten |->
                    doc.rezepte[r].zutaten[z]]]]]

\* the recipe ingredients of scheduled, stored recipes that are not stored
DanglingIngredients(doc) ==
    UNION {DOMAIN RecipeAt(doc, o).zutaten : o \in Occurrences(doc)} \ DOMAIN doc.zutaten

\* C18 as the program has it: a meal whose recipe is not stored adds nothing
\* to the weekly totals and nothing to the shopping list; a recipe
\* ingredient that is not stored adds nothing to the nutrition totals, but
\* its quantity is in the shopping list, under the category "Unbekannt".
C18_DanglingReferences ==
    [][(Anzeigen /\ anzeige'.einkaufsliste # <<>>) =>
          /\ anzeige'.weekly[1] = weekly(WithoutDanglingIngredients(WithoutDanglingMeals(data')))
          /\ anzeige'.einkaufsliste[1] = generate_shopping_list(WithoutDanglingMeals(data'))
          /\ \A z \in DanglingIngredients(data') :
                 /\ z \in DOMAIN anzeige'.einkaufsliste[1]
                 /\ anzeige'.einkaufsliste[1][z] > 0
                 /\ z \in DOMAIN anzeige'.kategorie[1]
                 /\ anzeige'.kategorie[1][z] = "Unbekannt"]_vars

C18_Witness ==
    /\ anzeige.einkaufsliste # <<>>
    /\ data.zutaten = "Reis" :> ReisWerte
    /\ data.wochenplan["Montag"] = <<Meal("08:00", "Bowl"), Meal("12:00", "Suppe")>>
    /\ DOMAIN data.rezepte = {"Bowl"}
    /\ anzeige.einkaufsliste[1] = ("Reis" :> 200) @@ ("Brokkoli" :> 50)
    /\ anzeige.kategorie[1]["Brokkoli"] = "Unbekannt"
    /\ anzeige.weekly[1].weekly_totals["kalorien"] = 350 * 200

\* C18 as the specification has it: neither kind of dangling reference
\* produces an entry or a quantity in the shopping list or adds to the
\* nutrition totals.
C18_DanglingExcludedEverywhere ==
    [][(Anzeigen /\ anzeige'.einkaufsliste # <<>>) =>
          /\ anzeige'.weekly[1] = weekly(WithoutDanglingIngredients(WithoutDanglingMeals(data')))
          /\ anzeige'.einkaufsliste[1] =
                 generate_shopping_list(WithoutDanglingIngredients(WithoutDanglingMeals(data')))]_vars

\* C19: after any sequence of operations that create or change ingredients
\* (manual add, CSV import with either policy, backup import in any mode)
\* every stored ingredient's protein, kohlenhydrate, fett and kalorien are
\* non-negative.
C19_NonNegativeValues ==
    \A n \in DOMAIN data.zutaten : \A k \in NutritionKeys : data.zutaten[n][k] >= 0

\* every name stored before and after the step has the values it had
KeepsValues ==
    \A n \in DOMAIN data.zutaten \cap DOMAIN data'.zutaten : data'.zutaten[n] = data.zutaten[n]

\* the values the last row of the table with name n and numeric cells gives
LastRowValues(df, n, default_kategorie) ==
    LET idx == {i \in DOMAIN df.rows :
                   /\ df.rows[i].Name = n
                   /\ \A col \in {"Protein", "Kohlenhydrate", "Fette", "Kcal"} :
                          df.rows[i][col] # <<>>}
        last == CHOOSE i \in idx : \A j \in idx : j <= i
        row == df.rows[last]
    IN  IF idx = {} THEN <<>>
        ELSE <<Zutat(row.Protein[1], row.Kohlenhydrate[1], row.Fette[1], row.Kcal[1],
                     IF "Kategorie" \in df.columns /\ row.Kategorie # ""
                     THEN row.Kategorie ELSE default_kategorie)>>

\* C20 as the program has it: a stored ingredient's values do not change
\* under a manual add of its name, a CSV import with the skip policy, a
\* delete of another name or a Merge-keep backup import; a CSV import with
\* the overwrite policy replaces them with the values of the table's last
\* valid row of that name, and a Merge-overwrite or Replace backup import
\* with the backup's values for the name.
C20_ValuesChangeOnlyByOverwrite ==
    [][/\ \/ KeepsValues
          \/ \E df \in CsvDateien : CsvImport(df, "Ueberschreiben", "Sonstiges")
          \/ Import("Ueberschreiben")
          \/ Import("Ersetzen")
          \/ Load
       /\ (\/ \E e \in ZutatEingaben : AddZutat(e[1], e[2])
           \/ \E df \in CsvDateien : CsvImport(df, "Ueberspringen", "Sonstiges")
           \/ \E n \in ZutatNamen \cup {"Tofu"} : DeleteZutat(n)
           \/ Import("Behalten")) => KeepsValues
       /\ \A df \in CsvDateien :
              (CsvMissing(df) = <<>> /\ CsvImport(df, "Ueberschreiben", "Sonstiges")) =>
                  \A n \in DOMAIN data.zutaten :
                      /\ n \in DOMAIN data'.zutaten
                      /\ data'.zutaten[n] =
                             IF LastRowValues(df, n, "Sonstiges") = <<>>
                             THEN data.zutaten[n]
                             ELSE LastRowValues(df, n, "Sonstiges")[1]
       /\ (Import("Ueberschreiben") \/ Import("Ersetzen")) =>
              \A n \in DOMAIN data.zutaten \cap DOMAIN uploaded_backup[1].zutaten :
                  /\ n \in DOMAIN data'.zutaten
                  /\ data'.zutaten[n] = uploaded_backup[1].zutaten[n]]_vars

C20_Witness ==
    /\ meldung = <<"csv", 2, 0, 0>>
    /\ file # NoFile
    /\ "Reis" \in DOMAIN file.zutaten
    /\ file.zutaten["Reis"] = Zutat(9, 79, 3, 370, "Sonstiges")
    /\ data.zutaten = file.zutaten

\* C20 as the specification has it: from the moment a name is stored until
\* it is deleted its values do not change under a manual add, a CSV import
\* with either policy or a Merge-overwrite or Merge-keep backup import.
C20_NeverMutatedInPlace ==
    [][(\/ \E e \in ZutatEingaben : AddZutat(e[1], e[2])
        \/ \E df \in CsvDateien, a \in DuplicateActions : CsvImport(df, a, "Sonstiges")
        \/ Import("Ueberschreiben")
        \/ Import("Behalten")) => KeepsValues]_vars

\* the list new is the list old with one more entry m
PlusOne(new, old, m) ==
    /\ Len(new) = Len(old) + 1
    /\ \A x \in Entries(new) \cup Entries(old) :
           Count(new, x) = Count(old, x) + (IF x = m THEN 1 ELSE 0)

\* every day but day t, the ingredients and the recipes are as they were
OnlyDayChanged(t) ==
    /\ DOMAIN data'.wochenplan = DOMAIN data.wochenplan
    /\ \A d \in DOMAIN data.wochenplan \ {t} : data'.wochenplan[d] = data.wochenplan[d]
    /\ data'.zutaten = data.zutaten
    /\ data'.rezepte = data.rezepte

\* C21: adding a meal (time t, recipe r) to a day is accepted whether or not
\* another meal has time t on that day: afterwards the day's list is the
\* previous list plus exactly that meal, sorted ascending by time, and every
\* other day, the ingredients and the recipes are unchanged.
C21_AddMealAddsExactlyOne ==
    [][\A r \in DOMAIN data.rezepte : \A z \in ZeitEingaben \ {<<>>} :
           \/ /\ meldung' = <<"success", "Mahlzeit hinzugefuegt", strftime(z)>>
              /\ PlusOne(data'.wochenplan[selected_day], data.wochenplan[selected_day],
                         Meal(strftime(z), r))
              /\ IsSorted(data'.wochenplan[selected_day])
              /\ OnlyDayChanged(selected_day)
           \/ ~AddMeal(z, r)]_vars

C21_Witness ==
    /\ meldung = <<"success", "Mahlzeit hinzugefuegt", "08:00">>
    /\ Count(data.wochenplan[selected_day], Meal("08:00", "Bowl")) = 2
    /\ file = data

\* no stored recipe lists an ingredient that is not stored
NoDanglingIngredient(doc) ==
    \A r \in DOMAIN doc.rezepte : DOMAIN doc.rezepte[r].zutaten \subseteq DOMAIN doc.zutaten

\* no scheduled meal names a recipe that is not stored
NoDanglingMeal(doc) ==
    \A t \in DOMAIN doc.wochenplan : \A i \in DOMAIN doc.wochenplan[t] :
        GetRezept(doc.wochenplan[t][i]) \in DOMAIN doc.rezepte

\* C22: from a document without dangling references, and without import, no
\* sequence of the interactive operations reaches a document in which a
\* stored recipe lists an absent ingredient or a scheduled meal names an
\* absent recipe; an ingredient cannot be deleted between being put on the
\* temporary ingredient list and the recipe being saved.
C22_NoDanglingWithoutImport ==
    /\ NoDanglingIngredient(data) /\ NoDanglingMeal(data)
    /\ NoDanglingIngredient(Persisted(load_data(file)))
    /\ NoDanglingMeal(Persisted(load_data(file)))

\* the half about meals alone: it holds in every state of SpecKatalog
MealsResolve == NoDanglingMeal(data) /\ NoDanglingMeal(Persisted(load_data(file)))

\* the last entry of list inc that has time z
LastAt(inc, z) ==
    LET idx == {i \in DOMAIN inc : HasZeit(inc[i]) /\ inc[i].zeit = z}
    IN  inc[CHOOSE i \in idx : \A j \in idx : j <= i]

C24_RemoveAndClear ==
    [][/\ \A i \in 1..(MaxMeals + 1) :
              \/ /\ i \in DOMAIN data.wochenplan[selected_day]
                 /\ data'.wochenplan[selected_day] =
                        Pop(SortByZeit(data.wochenplan[selected_day]), i)
                 /\ OnlyDayChanged(selected_day)
                 /\ file' = data'
              \/ ~RemoveMeal(i)
       /\ \/ /\ data'.wochenplan[selected_day] = <<>>
             /\ OnlyDayChanged(selected_day)
             /\ file' = data'
          \/ ~ClearDay
       /\ \/ /\ DOMAIN data'.wochenplan = DOMAIN data.wochenplan
             /\ \A t \in DOMAIN data'.wochenplan : data'.wochenplan[t] = <<>>
             /\ data'.zutaten = data.zutaten
             /\ data'.rezepte = data.rezepte
             /\ file' = data'
          \/ ~ClearWeek]_vars

C24_Witness ==
    /\ meldung = <<>>
    /\ saved
    /\ uploaded_backup = <<BackupUnsortiert>>
    /\ selected_day = "Montag"
    /\ data.wochenplan["Montag"] = <<Meal("18:00", "Suppe")>>
    /\ file = data

====
